---- MODULE Spec2Model ----
(***************************************************************************)
(* BadgerOS build tools.                                                   *)
(*   tools/ramfs-gen.py : walks a host directory and emits a C source with *)
(*                        one byte array per file and a function that      *)
(*                        rebuilds the tree in the target filesystem.      *)
(*   tools/selarch.py   : the toolchain-selection wizard.                  *)
(* Characters are strings ("a", "/", ...); BS, DQ, CR, LF stand for the    *)
(* backslash, the double quote, carriage return and line feed, and E9 for  *)
(* the non-ASCII letter U+00E9.  A Python str is a sequence of characters, *)
(* a file name is a str, a host path below argv[1] is a sequence of names. *)
(***************************************************************************)
EXTENDS Integers, Sequences, FiniteSets, TLC

VARIABLES
    argc,        \* len(sys.argv)
    outLoc,      \* where sys.argv[2] points: [inside, path]
    disk0,       \* the input tree before the run started
    disk,        \* the input tree now: [dirs, files]
    ext,         \* the file at sys.argv[2] when it lies outside the input tree
    opened,      \* the locations the run has opened for writing
    pc,          \* position of the script
    exit_code,   \* -1 while running, else the process exit status
    stack,       \* the add_dir activations: [path, virtpath, todo]
    roms, dirs, files, file_count,   \* the globals of ramfs-gen.py
    out,         \* what was written to outfd: [roms, body]
    tfs,         \* the target filesystem the generated function runs against
    xi,          \* index of the next operation of the generated function
    raw, lit, parsed, epc,           \* escape() and the downstream C parser
    sel          \* the state of selarch.py

vars == <<argc, outLoc, disk0, disk, ext, opened, pc, exit_code, stack,
          roms, dirs, files, file_count, out, tfs, xi,
          raw, lit, parsed, epc, sel>>

ramfsVars == <<argc, outLoc, disk0, disk, ext, opened, pc, exit_code, stack,
               roms, dirs, files, file_count, out, tfs, xi>>
escVars == <<raw, lit, parsed, epc>>

----------------------------------------------------------------------------
(* Bounds of the model *)

MaxNodes == 3     \* entries in the input tree
MaxArgc == 5      \* len(sys.argv) ranges over 1..MaxArgc
MaxLen == 3       \* length of the strings given to escape()

----------------------------------------------------------------------------
(* Names, characters, bytes *)

NameATxt == <<"a", ".", "t", "x", "t">>
NameSub == <<"s", "u", "b">>
NameBBin == <<"b", ".", "b", "i", "n">>
NameOdd == <<"E9", "DQ">>
Names == {NameATxt, NameSub, NameBBin, NameOdd}
\* the names the trees of the model give to directories and to files
DirNames == {NameSub, NameOdd}
FileNames == {NameATxt, NameBBin, NameOdd}

Contents == {<< >>, <<104, 105>>}

\* The bytes the output file holds for one character: open(..., "w") encodes
\* text as UTF-8, where U+00E9 takes two bytes.
CharBytes(c) ==
    CASE c = "/" -> <<47>>
      [] c = "." -> <<46>>
      [] c = "a" -> <<97>>
      [] c = "b" -> <<98>>
      [] c = "i" -> <<105>>
      [] c = "n" -> <<110>>
      [] c = "r" -> <<114>>
      [] c = "s" -> <<115>>
      [] c = "t" -> <<116>>
      [] c = "u" -> <<117>>
      [] c = "x" -> <<120>>
      [] c = "BS" -> <<92>>
      [] c = "DQ" -> <<34>>
      [] c = "CR" -> <<13>>
      [] c = "LF" -> <<10>>
      [] c = "E9" -> <<195, 169>>

RECURSIVE Utf8(_)
Utf8(s) == IF s = << >> THEN << >> ELSE CharBytes(Head(s)) \o Utf8(Tail(s))

----------------------------------------------------------------------------
(* escape(), lines 26-31: four str.replace passes, in this order *)

RECURSIVE Replace(_, _, _)
Replace(s, old, new) ==
    IF s = << >> THEN << >>
    ELSE (IF Head(s) = old THEN new ELSE <<Head(s)>>) \o Replace(Tail(s), old, new)

escapeQuoteFirst(s) ==
    Replace(Replace(Replace(Replace(s, "DQ", <<"BS", "DQ">>),
        "BS", <<"BS", "BS">>), "CR", <<"BS", "r">>), "LF", <<"BS", "n">>)

escape(s) ==
    Replace(Replace(Replace(Replace(s, "BS", <<"BS", "BS">>),
        "CR", <<"BS", "r">>), "LF", <<"BS", "n">>), "DQ", <<"BS", "DQ">>)

\* The downstream compiler's reading of the text between the quotes of a
\* string literal.
RECURSIVE Unescape(_)
Unescape(s) ==
    IF s = << >> THEN << >>
    ELSE IF Head(s) = "BS" /\ Len(s) >= 2 THEN
        (CASE s[2] = "BS" -> <<"BS">>
           [] s[2] = "DQ" -> <<"DQ">>
           [] s[2] = "r" -> <<"CR">>
           [] s[2] = "n" -> <<"LF">>
           [] OTHER -> <<"BS", s[2]>>) \o Unescape(Tail(Tail(s)))
    ELSE <<Head(s)>> \o Unescape(Tail(s))

\* The text can stand between two double quotes: every backslash starts one of
\* the four escapes, no double quote is left unescaped, no raw CR or LF.
RECURSIVE LiteralOK(_)
LiteralOK(s) ==
    IF s = << >> THEN TRUE
    ELSE IF Head(s) = "BS" THEN
        Len(s) >= 2 /\ s[2] \in {"BS", "DQ", "r", "n"} /\ LiteralOK(Tail(Tail(s)))
    ELSE Head(s) \notin {"DQ", "CR", "LF"} /\ LiteralOK(Tail(s))

----------------------------------------------------------------------------
(* The host tree *)

EmptyFn == [x \in {} |-> x]
EmptyTree == [dirs |-> {}, files |-> EmptyFn]

Bytes(b) == [bytes |-> b, gen |-> FALSE]
\* the content of the output file once outfd is flushed: the generated text
Generated == [bytes |-> << >>, gen |-> TRUE]

Nodes(d) == d.dirs \cup DOMAIN d.files
\* os.path.isdir
isdir(d, p) == p = << >> \/ p \in d.dirs

AddDirNode(t, p) == [t EXCEPT !.dirs = @ \cup {p}]
PutFile(t, p, c) ==
    [t EXCEPT !.files = [q \in (DOMAIN @) \cup {p} |-> IF q = p THEN c ELSE @[q]]]

Addable(t, S) ==
    {Append(p, n) : p \in {<< >>} \cup t.dirs, n \in S} \ Nodes(t)

Grow(t) ==
    {AddDirNode(t, p) : p \in Addable(t, DirNames)}
        \cup {PutFile(t, p, Bytes(c)) : p \in Addable(t, FileNames), c \in Contents}

\* every tree of at most k entries
RECURSIVE Trees(_)
Trees(k) ==
    IF k = 0 THEN {EmptyTree}
    ELSE LET S == Trees(k - 1) IN S \cup UNION {Grow(t) : t \in S}

\* os.listdir: the names in a directory, in any order
RECURSIVE Perms(_)
Perms(S) ==
    IF S = {} THEN {<< >>}
    ELSE UNION {{<<n>> \o q : q \in Perms(S \ {n})} : n \in S}

Entries(d, p) == {n \in Names : Append(p, n) \in Nodes(d)}
listdir(d, p) == Perms(Entries(d, p))

----------------------------------------------------------------------------
(* ramfs-gen.py: what the walk emits *)

HexDigits == <<"0", "1", "2", "3", "4", "5", "6", "7",
               "8", "9", "a", "b", "c", "d", "e", "f">>
\* "0x{:02x},".format(byte)
Hex2(b) == <<HexDigits[(b \div 16) + 1], HexDigits[(b % 16) + 1]>>
\* the value the C compiler reads from 0xhl
HexValue(h) ==
    LET v(c) == CHOOSE i \in 0..15 : HexDigits[i + 1] = c
    IN 16 * v(h[1]) + v(h[2])

\* open(path, "rb").read()
ReadNothing(d, p) == << >>
ReadBytes(d, p) == d.files[p].bytes

\* the host tree after open(path, "rb") ... infd.close(), lines 36-48
DiskAfterReadTruncated(d, p) == [d EXCEPT !.files[p] = [bytes |-> << >>, gen |-> FALSE]]
DiskAfterRead(d, p) == d

\* the array and its length constant, lines 38-42; name is the index in
\* "filerom_{}"
Rom(name, data) ==
    [name |-> name,
     init |-> [i \in 1..Len(data) |-> Hex2(data[i])],
     len_name |-> name,
     len |-> Len(data)]

\* virtpath + "/" + filename
ChildVirtNoRootSlash(virtpath, filename) ==
    IF virtpath = << >> THEN filename ELSE virtpath \o <<"/">> \o filename
ChildVirt(virtpath, filename) == virtpath \o <<"/">> \o filename

\* the five statements of lines 43-47
FileGroupDevAssert(virtpath, name) ==
    [kind |-> "file", path |-> escape(virtpath), path_len |-> Len(virtpath),
     open_check |-> "assert_dev_keep", rom |-> name, rom_len |-> name,
     write_check |-> "assert_dev_keep"]
FileGroup(virtpath, name) ==
    [kind |-> "file", path |-> escape(virtpath), path_len |-> Len(virtpath),
     open_check |-> "assert_always", rom |-> name, rom_len |-> name,
     write_check |-> "assert_always"]

\* the statement of line 55
DirOp(virtpath, filename) ==
    [kind |-> "mkdir", path |-> escape(ChildVirt(virtpath, filename)),
     path_len |-> Len(virtpath) + 1 + Len(filename),
     check |-> "assert_dev_keep"]

\* file_count += 1
SameCount(n) == n
NextCount(n) == n + 1

\* outfd.write(dirs); outfd.write(files), lines 67-68
EmitFilesFirst(ds, fs) == fs \o ds
EmitBody(ds, fs) == ds \o fs

\* len(sys.argv) != 4, line 5
ArgsAtLeast(n) == n >= 4
ArgsOk(n) == n = 4

----------------------------------------------------------------------------
(* ramfs-gen.py: the script *)

Outside == [inside |-> FALSE, path |-> << >>]
Inside(p) == [inside |-> TRUE, path |-> p]
NoFile == [exists |-> FALSE, data |-> Bytes(<< >>)]
File(c) == [exists |-> TRUE, data |-> c]

Top == stack[Len(stack)]
Pop == SubSeq(stack, 1, Len(stack) - 1)
Frame(path, virtpath, order) == [path |-> path, virtpath |-> virtpath, todo |-> order]

InitRamfs ==
    /\ argc \in 1..MaxArgc
    /\ disk0 \in Trees(MaxNodes)
    /\ disk = disk0
    /\ outLoc \in {Outside, Inside(<<NameOdd>>)}
    /\ ext \in IF outLoc.inside THEN {NoFile} ELSE {NoFile, File(Bytes(<<104, 105>>))}
    /\ opened = {}
    /\ pc = "start"
    /\ exit_code = -1
    /\ stack = << >>
    /\ roms = << >> /\ dirs = << >> /\ files = << >> /\ file_count = 0
    /\ out = [roms |-> << >>, body |-> << >>]
    /\ tfs = [dirs |-> {}, files |-> EmptyFn, halted |-> FALSE]
    /\ xi = 1

\* lines 5-7
CheckArgs ==
    /\ pc = "start"
    /\ IF ArgsOk(argc)
       THEN pc' = "open" /\ UNCHANGED exit_code
       ELSE pc' = "exited" /\ exit_code' = 1
    /\ UNCHANGED <<argc, outLoc, disk0, disk, ext, opened, stack, roms, dirs,
                   files, file_count, out, tfs, xi>>

\* line 9, open(sys.argv[2], "w"): creates the file or truncates it.  The
\* header of lines 11-17 stays in outfd's buffer.
OpenOut ==
    /\ pc = "open"
    /\ ~(outLoc.inside /\ isdir(disk, outLoc.path))
    /\ IF outLoc.inside
       THEN disk' = PutFile(disk, outLoc.path, Bytes(<< >>)) /\ UNCHANGED ext
       ELSE ext' = File(Bytes(<< >>)) /\ UNCHANGED disk
    /\ opened' = opened \cup {outLoc}
    /\ pc' = "call"
    /\ UNCHANGED <<argc, outLoc, disk0, exit_code, stack, roms, dirs, files,
                   file_count, out, tfs, xi>>

\* line 9 when sys.argv[2] names a directory: IsADirectoryError, uncaught
OpenOutRaises ==
    /\ pc = "open"
    /\ outLoc.inside /\ isdir(disk, outLoc.path)
    /\ pc' = "raised"
    /\ exit_code' = 1
    /\ UNCHANGED <<argc, outLoc, disk0, disk, ext, opened, stack, roms, dirs,
                   files, file_count, out, tfs, xi>>

\* line 62, add_dir(sys.argv[1], ""), up to os.listdir of line 53
CallAddDir ==
    /\ pc = "call"
    /\ \E order \in listdir(disk, << >>) :
          stack' = <<Frame(<< >>, << >>, order)>>
    /\ pc' = "walk"
    /\ UNCHANGED <<argc, outLoc, disk0, disk, ext, opened, exit_code, roms,
                   dirs, files, file_count, out, tfs, xi>>

\* lines 54-56: the entry is a directory
VisitDir ==
    /\ pc = "walk" /\ stack # << >> /\ Top.todo # << >>
    /\ LET filename == Head(Top.todo)
           child == Append(Top.path, filename)
       IN /\ isdir(disk, child)
          /\ dirs' = Append(dirs, DirOp(Top.virtpath, filename))
          /\ \E order \in listdir(disk, child) :
                stack' = Append([stack EXCEPT ![Len(stack)].todo = Tail(@)],
                                Frame(child, ChildVirt(Top.virtpath, filename), order))
    /\ UNCHANGED <<argc, outLoc, disk0, disk, ext, opened, pc, exit_code, roms,
                   files, file_count, out, tfs, xi>>

\* lines 57-59 and add_rom, lines 34-48: the entry is not a directory
VisitFile ==
    /\ pc = "walk" /\ stack # << >> /\ Top.todo # << >>
    /\ LET filename == Head(Top.todo)
           child == Append(Top.path, filename)
           name == file_count
       IN /\ ~isdir(disk, child)
          /\ roms' = Append(roms, Rom(name, ReadBytes(disk, child)))
          /\ files' = Append(files, FileGroup(ChildVirt(Top.virtpath, filename), name))
          /\ disk' = DiskAfterRead(disk, child)
    /\ file_count' = NextCount(file_count)
    /\ stack' = [stack EXCEPT ![Len(stack)].todo = Tail(@)]
    /\ UNCHANGED <<argc, outLoc, disk0, ext, opened, pc, exit_code, dirs,
                   out, tfs, xi>>

\* the for loop of line 53 is exhausted: add_dir returns
Return ==
    /\ pc = "walk" /\ stack # << >> /\ Top.todo = << >>
    /\ stack' = Pop
    /\ pc' = IF Len(stack) = 1 THEN "emit" ELSE "walk"
    /\ UNCHANGED <<argc, outLoc, disk0, disk, ext, opened, exit_code, roms,
                   dirs, files, file_count, out, tfs, xi>>

\* lines 63-73: the arrays, the function, flush and close
WriteOut ==
    /\ pc = "emit"
    /\ out' = [roms |-> roms, body |-> EmitBody(dirs, files)]
    /\ IF outLoc.inside
       THEN disk' = PutFile(disk, outLoc.path, Generated) /\ UNCHANGED ext
       ELSE ext' = File(Generated) /\ UNCHANGED disk
    /\ pc' = "done"
    /\ exit_code' = 0
    /\ UNCHANGED <<argc, outLoc, disk0, opened, stack, roms, dirs, files,
                   file_count, tfs, xi>>

----------------------------------------------------------------------------
(* The generated function, run once at startup against the target filesystem. *)
(* A path argument is a char pointer and a length in bytes.                   *)

Min(a, b) == IF a < b THEN a ELSE b

\* the bytes fs_make_file / fs_open look at: path_len bytes of the literal
TargetPath(op) ==
    LET b == Utf8(Unescape(op.path)) IN SubSeq(b, 1, Min(op.path_len, Len(b)))

LastSlash(bp) ==
    LET S == {i \in 1..Len(bp) : bp[i] = 47}
    IN IF S = {} THEN 0 ELSE CHOOSE i \in S : \A j \in S : j <= i

\* a node can be created at bp: it has a name and its parent directory exists
CanCreate(t, bp) ==
    /\ 1 <= LastSlash(bp) /\ LastSlash(bp) < Len(bp)
    /\ LET parent == SubSeq(bp, 1, LastSlash(bp) - 1)
       IN parent = << >> \/ parent \in t.dirs

\* whether a false condition stops the program: assert_always does in every
\* build, assert_dev_keep only in a debug build
Halts(check) == IF check = "assert_always" THEN {TRUE} ELSE BOOLEAN

\* the i-th array as the C compiler reads it, cut to the length constant
RomData(o, name, len_name) ==
    LET r == CHOOSE x \in {o.roms[i] : i \in 1..Len(o.roms)} : x.name = name
        l == CHOOSE x \in {o.roms[i] : i \in 1..Len(o.roms)} : x.len_name = len_name
    IN [i \in 1..Min(l.len, Len(r.init)) |-> HexValue(r.init[i])]

\* assert_dev_keep(fs_make_file(FILE_NONE, path, path_len, {NODE_TYPE_DIRECTORY}) >= 0)
ExecDir ==
    /\ pc = "done" /\ ~tfs.halted /\ xi <= Len(out.body)
    /\ LET op == out.body[xi]
           bp == TargetPath(op)
       IN /\ op.kind = "mkdir"
          /\ IF CanCreate(tfs, bp) /\ bp \notin tfs.dirs \cup DOMAIN tfs.files
             THEN tfs' = [tfs EXCEPT !.dirs = @ \cup {bp}]
             ELSE \E h \in Halts(op.check) : tfs' = [tfs EXCEPT !.halted = h]
    /\ xi' = xi + 1
    /\ UNCHANGED <<argc, outLoc, disk0, disk, ext, opened, pc, exit_code, stack,
                   roms, dirs, files, file_count, out>>

\* fs_open(..., FS_O_CREATE | FS_O_WRITE_ONLY), fs_write, fs_file_drop with
\* their two assertions
ExecFile ==
    /\ pc = "done" /\ ~tfs.halted /\ xi <= Len(out.body)
    /\ LET op == out.body[xi]
           bp == TargetPath(op)
       IN /\ op.kind = "file"
          /\ IF CanCreate(tfs, bp) /\ bp \notin tfs.dirs
             THEN tfs' = [tfs EXCEPT !.files =
                            [q \in (DOMAIN @) \cup {bp} |->
                                IF q = bp THEN RomData(out, op.rom, op.rom_len)
                                ELSE @[q]]]
             ELSE \E h \in Halts(op.open_check) : tfs' = [tfs EXCEPT !.halted = h]
    /\ xi' = xi + 1
    /\ UNCHANGED <<argc, outLoc, disk0, disk, ext, opened, pc, exit_code, stack,
                   roms, dirs, files, file_count, out>>

----------------------------------------------------------------------------
(* escape() on its own: a virtual path goes through escape() into the        *)
(* generated source (lines 43 and 55) and is read back by the C compiler.    *)

Alphabet == {"BS", "DQ", "CR", "LF", "r", "n", "a", "/"}

RECURSIVE Strs(_)
Strs(k) ==
    IF k = 0 THEN {<< >>}
    ELSE LET S == Strs(k - 1) IN S \cup {Append(x, c) : x \in S, c \in Alphabet}

InitEsc ==
    /\ raw \in Strs(MaxLen)
    /\ lit = << >>
    /\ parsed = << >>
    /\ epc = "start"

\* "\"{}\"".format(escape(virtpath))
Escape ==
    /\ epc = "start"
    /\ lit' = escape(raw)
    /\ epc' = "escaped"
    /\ UNCHANGED <<raw, parsed>>

\* the compiler reads the literal, or rejects the source
Compile ==
    /\ epc = "escaped"
    /\ IF LiteralOK(lit)
       THEN parsed' = Unescape(lit) /\ epc' = "parsed"
       ELSE parsed' = parsed /\ epc' = "rejected"
    /\ UNCHANGED <<raw, lit>>

----------------------------------------------------------------------------
(* selarch.py *)

architectures == <<"riscv64", "riscv32", "x86_64">>
Machines == {"riscv64", "riscv32", "x86_64", "aarch64"}
MaxCandidates == 2     \* compilers found on PATH: 0..MaxCandidates
None == "None"

\* architectures.index(x), 0-based, as a set: empty for None (lines 88-91)
IndexOf(x) == {i - 1 : i \in {j \in 1..Len(architectures) : architectures[j] = x}}

\* what prompt_choice can return for n options (lines 12-35): the preferred
\* index (a set, empty for None) without asking, or on an empty answer; else
\* any index 0..n-1
prompt_choice(n, preferred, use_defaults) ==
    IF use_defaults /\ preferred # {} THEN preferred
    ELSE (0..(n - 1)) \cup preferred

\* prompt_yesno with a default (lines 37-60)
prompt_yesno(default, use_defaults) ==
    IF use_defaults THEN {default} ELSE BOOLEAN

startswith_riscv(cpu) == cpu \in {"riscv64", "riscv32"}
\* config["cpu"][5:]
Bits(cpu) == IF cpu = "riscv64" THEN "64" ELSE "32"

Put(config, k, v) == [x \in (DOMAIN config) \cup {k} |-> IF x = k THEN v ELSE config[x]]

InitSel ==
    \E m \in Machines, a \in {None, "riscv64", "riscv32", "x86_64"},
       d \in BOOLEAN, n \in 0..MaxCandidates :
        sel = [pc |-> "cpu", machine |-> m, arch |-> a, use_defaults |-> d,
               ncand |-> n, config |-> EmptyFn, float_bound |-> FALSE,
               float_spec |-> 0, files |-> EmptyFn, err |-> None, exit_code |-> -1]

\* line 92
ChooseCpu ==
    /\ sel.pc = "cpu"
    /\ \E c \in (IF sel.arch # None THEN IndexOf(sel.arch)
                 ELSE prompt_choice(Len(architectures), IndexOf(sel.machine),
                                    sel.use_defaults)) :
          sel' = [sel EXCEPT !.config = Put(@, "cpu", architectures[c + 1]),
                             !.pc = "compiler"]

\* lines 94-115; the candidates found on PATH are numbered 1..ncand
ChooseCompiler ==
    /\ sel.pc = "compiler"
    /\ \E c \in prompt_choice(sel.ncand, {0}, sel.use_defaults) :
          IF c < sel.ncand
          THEN sel' = [sel EXCEPT
                  !.config = Put(Put(@, "compiler", <<"compiler", c + 1>>),
                                 "prefix", <<"prefix", c + 1>>),
                  !.pc = "isa"]
          ELSE sel' = [sel EXCEPT !.pc = "raised", !.err = "IndexError",
                                  !.exit_code = 1]

\* lines 117-136
DeriveIsa ==
    /\ sel.pc = "isa"
    /\ LET cpu == sel.config["cpu"] IN
       \/ /\ sel.machine = cpu
          /\ TRUE \in prompt_yesno(TRUE, sel.use_defaults)
          /\ sel' = [sel EXCEPT
                !.config = Put(Put(@, "isa_spec", "native"), "kisa_spec",
                    IF startswith_riscv(cpu)
                    THEN "rv" \o Bits(cpu) \o "imac_zicsr_zifencei" ELSE "x86-64"),
                !.pc = "abi"]
       \/ /\ sel.machine # cpu \/ FALSE \in prompt_yesno(TRUE, sel.use_defaults)
          /\ startswith_riscv(cpu)
          /\ \E f \in prompt_choice(3, {2}, sel.use_defaults),
                v \in prompt_yesno(TRUE, sel.use_defaults) :
                sel' = [sel EXCEPT
                    !.float_bound = TRUE,
                    !.float_spec = f,
                    !.config = Put(Put(Put(Put(@,
                        "rv_float_spec", <<"none", "single", "double">>[f + 1]),
                        "rv_use_vector", IF v THEN "True" ELSE "False"),
                        "isa_spec", "rv" \o Bits(cpu) \o "ima" \o <<"", "f", "fd">>[f + 1]
                            \o "c" \o (IF v THEN "v" ELSE "") \o "_zicsr_zifencei"),
                        "kisa_spec", "rv" \o Bits(cpu) \o "imac_zicsr_zifencei"),
                    !.pc = "abi"]
       \/ /\ sel.machine # cpu \/ FALSE \in prompt_yesno(TRUE, sel.use_defaults)
          /\ ~startswith_riscv(cpu)
          /\ \E x \in prompt_choice(3, {2}, sel.use_defaults) :
                sel' = [sel EXCEPT
                    !.config = Put(Put(@, "isa_spec",
                        <<"x86-64", "x86-64-v2", "x86-64-v3">>[x + 1]),
                        "kisa_spec", "x86-64"),
                    !.pc = "abi"]

\* lines 138-143; line 140 reads float_spec, which only line 126 binds
DeriveAbi ==
    /\ sel.pc = "abi"
    /\ LET cpu == sel.config["cpu"]
           kabi == IF cpu = "riscv32" THEN "ilp32" ELSE "lp64"
       IN IF startswith_riscv(cpu)
          THEN IF sel.float_bound
               THEN sel' = [sel EXCEPT
                       !.config = Put(Put(@, "kabi_spec", kabi), "abi_spec",
                           kabi \o <<"", "f", "d">>[sel.float_spec + 1]),
                       !.pc = "write"]
               ELSE sel' = [sel EXCEPT
                       !.config = Put(@, "kabi_spec", kabi),
                       !.pc = "raised", !.err = "NameError", !.exit_code = 1]
          ELSE sel' = [sel EXCEPT
                  !.config = Put(Put(@, "abi_spec", "sysv"), "kabi_spec", "sysv"),
                  !.pc = "write"]

\* lines 154-169: one line group per option of config in each file
WriteConfig ==
    /\ sel.pc = "write"
    /\ sel' = [sel EXCEPT
          !.files = Put(Put(@, "config.mk", DOMAIN sel.config),
                        "config.cmake", DOMAIN sel.config),
          !.pc = "done", !.exit_code = 0]

\* KeyboardInterrupt or EOF at a prompt that is really asked: exit(1)
PromptEOF ==
    /\ \/ sel.pc = "cpu" /\ sel.arch = None
             /\ ~(sel.use_defaults /\ IndexOf(sel.machine) # {})
       \/ sel.pc \in {"compiler", "isa"} /\ ~sel.use_defaults
    /\ sel' = [sel EXCEPT !.pc = "exited", !.exit_code = 1]

----------------------------------------------------------------------------
IdleRamfs ==
    /\ argc = 0 /\ outLoc = Outside /\ disk0 = EmptyTree /\ disk = EmptyTree
    /\ ext = NoFile /\ opened = {} /\ pc = "idle" /\ exit_code = -1
    /\ stack = << >> /\ roms = << >> /\ dirs = << >> /\ files = << >>
    /\ file_count = 0 /\ out = [roms |-> << >>, body |-> << >>]
    /\ tfs = [dirs |-> {}, files |-> EmptyFn, halted |-> FALSE] /\ xi = 1
IdleEsc == raw = << >> /\ lit = << >> /\ parsed = << >> /\ epc = "idle"
IdleSel == sel = [pc |-> "idle"]

\* ramfs-gen.py, then the generated function on the target
Init == InitRamfs /\ IdleEsc /\ IdleSel

Next ==
    \/ CheckArgs /\ UNCHANGED <<escVars, sel>>
    \/ OpenOut /\ UNCHANGED <<escVars, sel>>
    \/ OpenOutRaises /\ UNCHANGED <<escVars, sel>>
    \/ CallAddDir /\ UNCHANGED <<escVars, sel>>
    \/ VisitDir /\ UNCHANGED <<escVars, sel>>
    \/ VisitFile /\ UNCHANGED <<escVars, sel>>
    \/ Return /\ UNCHANGED <<escVars, sel>>
    \/ WriteOut /\ UNCHANGED <<escVars, sel>>
    \/ ExecDir /\ UNCHANGED <<escVars, sel>>
    \/ ExecFile /\ UNCHANGED <<escVars, sel>>

Spec == Init /\ [][Next]_vars

\* escape() and the compiler
NextEsc ==
    \/ Escape /\ UNCHANGED <<ramfsVars, sel>>
    \/ Compile /\ UNCHANGED <<ramfsVars, sel>>

InitEscape == IdleRamfs /\ InitEsc /\ IdleSel
SpecEscape == InitEscape /\ [][NextEsc]_vars

\* selarch.py
NextSel ==
    \/ ChooseCpu /\ UNCHANGED <<ramfsVars, escVars>>
    \/ ChooseCompiler /\ UNCHANGED <<ramfsVars, escVars>>
    \/ DeriveIsa /\ UNCHANGED <<ramfsVars, escVars>>
    \/ DeriveAbi /\ UNCHANGED <<ramfsVars, escVars>>
    \/ WriteConfig /\ UNCHANGED <<ramfsVars, escVars>>
    \/ PromptEOF /\ UNCHANGED <<ramfsVars, escVars>>

InitSelarch == IdleRamfs /\ IdleEsc /\ InitSel
SpecSel == InitSelarch /\ [][NextSel]_vars

----------------------------------------------------------------------------
(* Vocabulary of the properties *)

\* the virtual path of a host path: "/" + name for every component
RECURSIVE Virt(_)
Virt(p) == IF p = << >> THEN << >> ELSE <<"/">> \o Head(p) \o Virt(Tail(p))

\* the input tree as the walk finds it: line 9 has run before line 62
Walked == IF outLoc.inside THEN PutFile(disk0, outLoc.path, Bytes(<< >>)) ELSE disk0

Body == out.body
DirIdx == {i \in 1..Len(Body) : Body[i].kind = "mkdir"}
FileIdx == {i \in 1..Len(Body) : Body[i].kind = "file"}
\* the path a statement names, as the compiler reads the literal
PathOf(op) == Unescape(op.path)
\* P lies below directory V
Below(P, V) == Len(P) > Len(V) /\ SubSeq(P, 1, Len(V)) = V /\ P[Len(V) + 1] = "/"
\* the bytes of the array initialiser, as the compiler reads them
RomBytes(r) == [i \in 1..Len(r.init) |-> HexValue(r.init[i])]

Finished == pc = "done" /\ (tfs.halted \/ xi > Len(Body))

----------------------------------------------------------------------------
(* C1: running the generated function on an empty target filesystem yields   *)
(* the input tree: the same paths, the same type at each path, the same      *)
(* bytes in each file.  Stated for the runs whose output file lies outside   *)
(* the input tree.                                                           *)
C1_TreeReproduced ==
    (Finished /\ ~outLoc.inside) =>
        /\ ~tfs.halted
        /\ tfs.dirs = {Utf8(Virt(p)) : p \in Walked.dirs}
        /\ DOMAIN tfs.files = {Utf8(Virt(p)) : p \in DOMAIN Walked.files}
        /\ \A p \in DOMAIN Walked.files :
              tfs.files[Utf8(Virt(p))] = Walked.files[p].bytes

\* C1 for the trees whose names are ASCII: there it holds
AsciiTree == \A p \in Nodes(Walked) : \A i \in 1..Len(p) : p[i] # NameOdd
C1_AsciiTreeReproduced == AsciiTree => C1_TreeReproduced

(* C2: in the emitted function body the creation of a directory D comes      *)
(* before every statement that names a path below D.                         *)
C2_DirBeforeUse ==
    pc = "done" =>
        \A D \in Walked.dirs :
            \E i \in DirIdx :
                /\ PathOf(Body[i]) = Virt(D)
                /\ \A j \in 1..Len(Body) :
                      Below(PathOf(Body[j]), Virt(D)) => i < j
C2_Witness ==
    /\ pc = "done"
    /\ Walked.dirs = {<<NameSub>>, <<NameSub, NameOdd>>}
    /\ DOMAIN Walked.files = {<<NameSub, NameATxt>>}

(* C3: with an argument count other than 3 the script exits with code 1      *)
(* before it opens the output file or reads the input directory.             *)
C3_UsageBeforeOpen ==
    (pc # "idle" /\ argc # 4) =>
        /\ pc \in {"start", "exited"}
        /\ pc = "exited" => exit_code = 1
        /\ opened = {}
        /\ ext \in {NoFile, File(Bytes(<<104, 105>>))}
        /\ disk = disk0
        /\ stack = << >> /\ roms = << >> /\ dirs = << >> /\ files = << >>
C3_Witness == pc = "exited" /\ argc = 3 /\ ext.exists /\ Nodes(disk) # {}

(* C4: the compiler reads escape(path) back as path, and escape(path) can    *)
(* stand between double quotes: no unescaped quote, no raw CR or LF.         *)
C4_EscapeRoundTrip ==
    /\ epc \in {"escaped", "parsed", "rejected"} =>
          LiteralOK(lit) /\ Unescape(lit) = raw
    /\ epc # "rejected"
    /\ epc = "parsed" => parsed = raw
C4_Witness ==
    epc = "parsed" /\ raw = <<"BS", "n", "DQ">>
        /\ lit = <<"BS", "BS", "n", "BS", "DQ">>

(* C5: the tree with a.txt (bytes 68 69) and sub/b.bin (empty).  As claimed:  *)
(* mkdir /sub, then /a.txt with array 0, then /sub/b.bin with array 1.       *)
Tree5 ==
    [dirs |-> {<<NameSub>>},
     files |-> [q \in {<<NameATxt>>, <<NameSub, NameBBin>>} |->
                  IF q = <<NameATxt>> THEN Bytes(<<104, 105>>) ELSE Bytes(<< >>)]]
Scenario5 == pc = "done" /\ disk0 = Tree5 /\ ~outLoc.inside

\* what a statement group says: its kind, path literal, length and arrays
Said(op) ==
    IF op.kind = "mkdir" THEN <<"mkdir", op.path, op.path_len>>
    ELSE <<"file", op.path, op.path_len, op.rom, op.rom_len>>
Mkdir5 == <<"mkdir", <<"/", "s", "u", "b">>, 4>>
FileA5(i) == <<"file", <<"/", "a", ".", "t", "x", "t">>, 6, i, i>>
FileB5(i) == <<"file", <<"/", "s", "u", "b", "/", "b", ".", "b", "i", "n">>, 10, i, i>>
RomA5(i) == [name |-> i, init |-> <<<<"6", "8">>, <<"6", "9">>>>, len_name |-> i, len |-> 2]
RomB5(i) == [name |-> i, init |-> << >>, len_name |-> i, len |-> 0]

C5_AsClaimed ==
    Scenario5 =>
        /\ [i \in 1..Len(Body) |-> Said(Body[i])] = <<Mkdir5, FileA5(0), FileB5(1)>>
        /\ out.roms = <<RomA5(0), RomB5(1)>>

(* C5, amended: mkdir /sub comes first; the two file groups and their arrays *)
(* follow in the order in which the host lists a.txt and sub, the first      *)
(* listed getting array 0.                                                   *)
C5_EitherOrder ==
    Scenario5 =>
        \/ /\ [i \in 1..Len(Body) |-> Said(Body[i])] = <<Mkdir5, FileA5(0), FileB5(1)>>
           /\ out.roms = <<RomA5(0), RomB5(1)>>
        \/ /\ [i \in 1..Len(Body) |-> Said(Body[i])] = <<Mkdir5, FileB5(0), FileA5(1)>>
           /\ out.roms = <<RomB5(0), RomA5(1)>>
C5_Witness == Scenario5 /\ out.roms = <<RomB5(0), RomA5(1)>>

(* C6: one creation statement for every directory below the root, empty ones *)
(* included, naming its virtual path; none for the root; nothing but the     *)
(* files contributes a file group or an array.                               *)
C6_OneMkdirPerDir ==
    pc = "done" =>
        /\ \A D \in Walked.dirs :
              Cardinality({i \in DirIdx : PathOf(Body[i]) = Virt(D)}) = 1
        /\ \A i \in DirIdx :
              /\ \E D \in Walked.dirs : PathOf(Body[i]) = Virt(D)
              /\ Head(PathOf(Body[i])) = "/"
        /\ \A i \in FileIdx :
              \E f \in DOMAIN Walked.files : PathOf(Body[i]) = Virt(f)
        /\ Cardinality(FileIdx) = Cardinality(DOMAIN Walked.files)
        /\ Len(out.roms) = Cardinality(DOMAIN Walked.files)
C6_Witness ==
    /\ pc = "done"
    /\ Walked.dirs = {<<NameSub>>, <<NameSub, NameOdd>>, <<NameSub, NameOdd, NameSub>>}
    /\ Len(Body) = 3 /\ out.roms = << >>

(* C7: a run writes the output file only, leaves the input tree as it was,   *)
(* and embeds the tree as it was before the run.                             *)
EmbeddedDirs == {PathOf(Body[i]) : i \in DirIdx}
EmbeddedFiles ==
    {<<PathOf(Body[i]),
       RomBytes(CHOOSE r \in {out.roms[k] : k \in 1..Len(out.roms)} :
                    r.name = Body[i].rom)>> : i \in FileIdx}
TreeDirs(t) == {Virt(p) : p \in t.dirs}
TreeFiles(t) == {<<Virt(p), t.files[p].bytes>> : p \in DOMAIN t.files}
InputUntouched ==
    /\ pc \in {"start", "open", "call", "walk", "emit", "done", "raised"} =>
          /\ disk = disk0
          /\ opened \subseteq {outLoc}
    /\ pc = "done" =>
          /\ opened = {outLoc}
          /\ EmbeddedDirs = TreeDirs(disk0)
          /\ EmbeddedFiles = TreeFiles(disk0)
          /\ Len(out.roms) = Cardinality(DOMAIN disk0.files)

C7_AnyOutputPath == argc = 4 => InputUntouched

(* C7, amended: the same, provided the output path does not lie inside the   *)
(* input directory.                                                          *)
C7_OutputOutside == (argc = 4 /\ ~outLoc.inside) => InputUntouched
C7_Witness ==
    /\ pc = "done" /\ ~outLoc.inside /\ ext = File(Generated)
    /\ Cardinality(DOMAIN disk0.files) = 2 /\ disk0.dirs # {}

(* C8: every directory creation, file open and file write is checked by      *)
(* assert_always.                                                            *)
Emitted == dirs \o files \o Body
C8_AllAssertAlways ==
    \A i \in 1..Len(Emitted) :
        IF Emitted[i].kind = "mkdir" THEN Emitted[i].check = "assert_always"
        ELSE Emitted[i].open_check = "assert_always"
                /\ Emitted[i].write_check = "assert_always"

(* C8, amended: every file open and every file write is checked by           *)
(* assert_always; a directory creation is wrapped in assert_dev_keep.        *)
C8_FilesAssertAlways ==
    \A i \in 1..Len(Emitted) :
        IF Emitted[i].kind = "mkdir" THEN Emitted[i].check = "assert_dev_keep"
        ELSE Emitted[i].open_check = "assert_always"
                /\ Emitted[i].write_check = "assert_always"
C8_Witness ==
    pc = "done" /\ DirIdx # {} /\ Cardinality(FileIdx) >= 2

(* C9: n files give n arrays filerom_0 .. filerom_(n-1), no name twice; the  *)
(* i-th file group opens the i-th file's virtual path and writes filerom_i   *)
(* with filerom_i_len, the byte count of that file.                          *)
C9_SequentialRoms ==
    pc \in {"emit", "done"} =>
        LET n == Cardinality(DOMAIN Walked.files) IN
        /\ Len(roms) = n /\ Len(files) = n /\ file_count = n
        /\ \A i \in 1..Len(roms) :
              /\ roms[i].name = i - 1 /\ roms[i].len_name = i - 1
              /\ \A j \in 1..Len(roms) : roms[i].name = roms[j].name => i = j
        /\ \A i \in 1..Len(files) :
              /\ files[i].rom = i - 1 /\ files[i].rom_len = i - 1
              /\ \E f \in DOMAIN Walked.files :
                    /\ PathOf(files[i]) = Virt(f)
                    /\ RomBytes(roms[i]) = Walked.files[f].bytes
                    /\ roms[i].len = Len(Walked.files[f].bytes)
        /\ \A i, j \in 1..Len(files) : files[i].path = files[j].path => i = j
        /\ pc = "done" => out.roms = roms
C9_Witness ==
    /\ pc = "done" /\ ~outLoc.inside /\ Len(out.roms) = 2
    /\ DOMAIN disk0.files = {<<NameSub, NameBBin>>, <<NameATxt>>}
    /\ out.roms[1].len = 2 /\ out.roms[2].len = 0 /\ out.roms[2].name = 1

(* C10: with at least one candidate compiler the wizard reaches the write    *)
(* step without an error and writes config.mk and config.cmake, each with    *)
(* cpu, compiler, prefix, isa_spec, kisa_spec, abi_spec and kabi_spec.       *)
RequiredOptions ==
    {"cpu", "compiler", "prefix", "isa_spec", "kisa_spec", "abi_spec", "kabi_spec"}
C10_WizardCompletes ==
    (sel.pc # "idle" /\ sel.ncand >= 1) =>
        /\ sel.pc # "raised"
        /\ sel.pc = "done" =>
              /\ DOMAIN sel.files = {"config.mk", "config.cmake"}
              /\ \A f \in DOMAIN sel.files : RequiredOptions \subseteq sel.files[f]

====
